---------------------------- MODULE Spec2Model ----------------------------
(***************************************************************************)
(* Model of the mcp-web-scraper tool servers.                              *)
(*                                                                         *)
(* Three server programs live in the repository:                           *)
(*   "fastmcp"    the tools registered by tools/search.py (register_...),  *)
(*   "webscraper" src/src/server.py, whose call_tool dispatches by name to  *)
(*                the WebScraper methods of src/src/tools.py,              *)
(*   "research"   src/server.py, whose call_tool holds its own four tools  *)
(*                and the in-memory q_client collection.                   *)
(* One behaviour of the model is one server process: a sequence of tool    *)
(* invocations, each a sequence of steps with a suspension point at every  *)
(* call to the search capability and after every pass of the scraping     *)
(* loop (the download, the extraction and the pacing delay of one item are *)
(* blocking calls, so one pass is one step).                               *)
(*                                                                         *)
(* Python values: a str is a sequence of pieces (TLA+ strings); page texts *)
(* are sequences of single characters, so len() of a text is Len.  A dict  *)
(* is a function from key strings to values.                               *)
(***************************************************************************)
EXTENDS Integers, Sequences, FiniteSets, TLC

VARIABLES
    app,            \* which server program this process is
    pc,             \* position of the current invocation
    call,           \* the invocation: tool name and arguments as received
    frame,          \* the operation entered for it and its argument
    num_results,    \* search_and_scrape: local num_results
    search_result,  \* search_and_scrape: local search_result
    idx,            \* search_and_scrape: number of items already finished
    enriched_results, \* search_and_scrape: local enriched_results
    result,         \* the dict the tool operation returned
    reply,          \* what the entry point handed back to its caller
    log,            \* external calls made by the invocation, in order
    faults,         \* per-item faults injected into the invocation so far
    memory          \* research: documents held by q_client

vars == <<app, pc, call, frame, num_results, search_result, idx,
          enriched_results, result, reply, log, faults, memory>>

----------------------------------------------------------------------------
(* Bounds of the model. *)

\* requests 0..MaxSmallReq are explored besides the values around each cap
MaxSmallReq == 3
\* a search that returns fewer results than asked returns 0..MaxShort of them
MaxShort == 2
\* at most this many items of one search_and_scrape call fail
MaxFaults == 2
\* research: at most this many documents are stored
MaxNotes == 2

(* Program constants. *)
SCRAPE_CAP == 10
SEARCH_CAP == 20
DEFAULT_MAX_RESULTS == 10
DEFAULT_NUM_RESULTS == 5
QUICK_RESULTS == 3
STANDARD_RESULTS == 5
COMPREHENSIVE_RESULTS == 10
RESEARCH_SEARCH_RESULTS == 5
RETRIEVE_LIMIT == 3

Min(a, b) == IF a <= b THEN a ELSE b

----------------------------------------------------------------------------
(* Python values. *)

\* None, as a str-typed value distinct from every str
PyNone == <<"\\None">>
\* the empty str
EmptyStr == <<>>
\* truth value of an optional str: None and "" are falsy
Truthy(s) == s # PyNone /\ s # EmptyStr

\* d with key k set to v ({**d, k: v})
DictSet(d, k, v) == [x \in (DOMAIN d) \cup {k} |-> IF x = k THEN v ELSE d[x]]
\* d.get(k, default)
DictGet(d, k, default) == IF k \in DOMAIN d THEN d[k] ELSE default
\* s[:n] for n >= 0
Prefix(s, n) == SubSeq(s, 1, Min(n, Len(s)))

\* the value a variable holds while nothing has been assigned to it
Unset == [unset |-> TRUE]

----------------------------------------------------------------------------
(* The external world: search capability, page download, text extraction. *)

Queries == {"x"}

\* the i-th raw hit of ddgs.text for query q; the third hit carries no body
TextHit(q, i) ==
    IF i % 3 = 0
    THEN [title |-> <<"title", q, i>>, href |-> <<"http", q, i>>]
    ELSE [title |-> <<"title", q, i>>, href |-> <<"http", q, i>>,
          body |-> <<"body", q, i>>]

\* the i-th raw hit of ddgs.news for query q
NewsHit(q, i) ==
    [title |-> <<"title", q, i>>, url |-> <<"http", q, i>>,
     body |-> <<"body", q, i>>, source |-> <<"paper", q, i>>,
     date |-> <<"date", q, i>>, image |-> <<"img", q, i>>]

\* how many hits the capability may return when asked for m: all m of them
\* or a short list; what it does for m = 0 is not specified
HitCounts(m) ==
    IF m = 0 THEN 0..MaxShort ELSE {n \in 0..MaxShort : n <= m} \cup {m}

\* responses of the capability asked for m results: a list of n hits, or a
\* fault raised after n hits were yielded
SearchResponses(m) ==
    [ok : {TRUE}, n : HitCounts(m)] \cup [ok : {FALSE}, n : {0, Min(1, m)}]

SearchFaultMsg == <<"search failed">>
FetchFaultMsg == <<"fetch raised">>
ExtractFaultMsg == <<"extract raised">>

\* the readable text of the page at a url (characters)
PageText(url) ==
    IF url[3] % 2 = 1 THEN <<"H", "i">> ELSE <<"t", "e", "x", "t">>


\* outcome of a call that raised instead of returning
Raised == <<"\\raise">>
\* the document trafilatura.fetch_url returns for a url it could download
Doc(url) == <<"html", url>>
\* fetch_url: the document, None when the download failed, or a fault
FetchOutcomes(url) == {Doc(url), PyNone, Raised}
\* what extract gives for a page without readable text: None or ""
NoText(url) == IF url[3] % 2 = 0 THEN PyNone ELSE EmptyStr
\* extract: the page's text, nothing readable, or a fault
ExtractOutcomes(url) == {PageText(url), NoText(url), Raised}
\* the extract entry of an item whose download gave nothing to extract
NotCalled == <<"\\notcalled">>
\* the outcomes of one item: of its download and, after a download that
\* gave a document, of its extraction
ItemOutcomes(url) ==
    {<<f, NotCalled>> : f \in FetchOutcomes(url) \ {Doc(url)}} \cup
    {<<Doc(url), e>> : e \in ExtractOutcomes(url)}

\* entries of the log of external calls
SearchCall(kind, q, m, resp) ==
    [ev |-> "search", arg |-> <<kind, q, m>>, out |-> resp]
FetchCall(url, out) == [ev |-> "fetch", arg |-> url, out |-> out]
ExtractCall(url, out) == [ev |-> "extract", arg |-> url, out |-> out]
SleepCall == [ev |-> "sleep", arg |-> <<>>, out |-> <<>>]

----------------------------------------------------------------------------
(* Search Client: web_search and news_search. *)

Apps == {"fastmcp", "webscraper", "research"}

\* max_results as handed to ddgs.text / ddgs.news
SearchArg(a, max_results) ==
    IF a = "fastmcp" THEN Min(max_results, SEARCH_CAP) ELSE max_results

\* the SearchResult built from one raw ddgs.text hit
WebSearchItem(a, hit) ==
    IF a = "fastmcp"
    THEN [title |-> DictGet(hit, "title", EmptyStr),
          url |-> DictGet(hit, "href", EmptyStr),
          snippet |-> DictGet(hit, "body", EmptyStr)]
    ELSE [title |-> DictGet(hit, "title", EmptyStr),
          url |-> DictGet(hit, "href", EmptyStr),
          snippet |-> DictGet(hit, "body", EmptyStr),
          source |-> <<"DuckDuckGo">>]

\* the SearchResult built from one raw ddgs.news hit
NewsSearchItem(hit) ==
    [title |-> DictGet(hit, "title", EmptyStr),
     url |-> DictGet(hit, "url", EmptyStr),
     snippet |-> DictGet(hit, "body", EmptyStr),
     source |-> DictGet(hit, "source", EmptyStr),
     date |-> DictGet(hit, "date", EmptyStr),
     image |-> DictGet(hit, "image", EmptyStr)]

\* SearchFailure that also carries an empty result list
SearchFailureWithResults(q, msg) ==
    [success |-> FALSE, query |-> q, error |-> msg, results |-> <<>>,
     count |-> 0]

\* the failure envelope of a search operation
SearchFailure(q, msg) == [success |-> FALSE, query |-> q, error |-> msg]

\* the success envelope of a search operation
SearchSuccess(q, results) ==
    [success |-> TRUE, query |-> q, results |-> results,
     count |-> Len(results)]

\* web_search whose handler returns the results collected before the fault
web_search_partial(a, q, resp) ==
    SearchSuccess(q, [i \in 1..resp.n |-> WebSearchItem(a, TextHit(q, i))])

\* what web_search returns on the capability's response resp
web_search(a, q, resp) ==
    IF resp.ok
    THEN SearchSuccess(q, [i \in 1..resp.n |-> WebSearchItem(a, TextHit(q, i))])
    ELSE SearchFailure(q, SearchFaultMsg)

\* what news_search returns on the capability's response resp
news_search(a, q, resp) ==
    IF resp.ok
    THEN SearchSuccess(q, [i \in 1..resp.n |-> NewsSearchItem(NewsHit(q, i))])
    ELSE SearchFailure(q, SearchFaultMsg)

----------------------------------------------------------------------------
(* Fan-out Orchestrator: search_and_scrape. *)

\* ScrapeClamp with the clamp of the registered tool at five
ScrapeClampAtFive(a, n) == IF a = "fastmcp" THEN Min(n, 5) ELSE n

\* num_results after the clamp of the first step
ScrapeClamp(a, n) == IF a = "fastmcp" THEN Min(n, SCRAPE_CAP) ELSE n

\* Items with the slice one short
ItemsOneShort == Prefix(search_result.results, num_results - 1)

\* Items without the slice: every result of the search
ItemsUnsliced == search_result.results

\* the items the loop iterates over: search_result["results"][:num_results]
Items == Prefix(search_result.results, num_results)

PlaceholderNoDownload == <<"Failed to download page">>
PlaceholderNoContent == <<"Content extraction failed">>
ErrorPrefix(a) ==
    IF a = "fastmcp" THEN <<"Error: ">> ELSE <<"Scraping error: ">>

\* EnrichExtracted measuring the content after the placeholder is put in
EnrichExtractedMeasuresPlaceholder(item, content) ==
    [title |-> item.title, url |-> item.url, snippet |-> item.snippet,
     content |-> IF Truthy(content) THEN content ELSE PlaceholderNoContent,
     content_length |-> IF Truthy(content) THEN Len(content)
                        ELSE Len(PlaceholderNoContent)]

\* the EnrichedResult appended when the download succeeded
EnrichExtracted(item, content) ==
    [title |-> item.title, url |-> item.url, snippet |-> item.snippet,
     content |-> IF Truthy(content) THEN content ELSE PlaceholderNoContent,
     content_length |-> IF Truthy(content) THEN Len(content) ELSE 0]

\* the EnrichedResult appended when fetch_url returned nothing
EnrichNoDownload(item) ==
    DictSet(DictSet(item, "content", PlaceholderNoDownload),
            "content_length", 0)

\* the EnrichedResult appended by the per-item exception handler
EnrichError(a, item, msg) ==
    DictSet(DictSet(item, "content", ErrorPrefix(a) \o msg),
            "content_length", 0)

\* whether the pacing delay is held after the item numbered i (from 1)
SleepsAfter(a, i, n) == IF a = "fastmcp" THEN i < n ELSE TRUE

----------------------------------------------------------------------------
(* Smart-Search Mode Selector. *)

Modes == {"quick", "standard", "comprehensive", "deep"}

\* SmartRoute that scrapes only for "comprehensive"
SmartRouteStrict(mode) ==
    IF mode = "quick"
    THEN [op |-> "web_search", arg |-> QUICK_RESULTS]
    ELSE IF mode = "comprehensive"
         THEN [op |-> "search_and_scrape", arg |-> COMPREHENSIVE_RESULTS]
         ELSE [op |-> "web_search", arg |-> STANDARD_RESULTS]

\* the operation smart_search hands the query to, and with how many results
SmartRoute(mode) ==
    IF mode = "quick"
    THEN [op |-> "web_search", arg |-> QUICK_RESULTS]
    ELSE IF mode = "standard"
         THEN [op |-> "web_search", arg |-> STANDARD_RESULTS]
         ELSE [op |-> "search_and_scrape", arg |-> COMPREHENSIVE_RESULTS]

----------------------------------------------------------------------------
(* Entry points. *)

\* the programs that serve the search tools
SearchApps == {"fastmcp", "webscraper"}

\* names in the TOOLS list of src/src/server.py
WebScraperCatalogue ==
    {"scrape_html", "extract_links", "extract_metadata", "scrape_table",
     "web_search", "search_and_scrape", "extract_article", "smart_search",
     "news_search"}

\* names in list_tools of src/server.py
ResearchCatalogue ==
    {"search_web", "scrape_url", "store_memory", "retrieve_memory"}

\* the tool catalogue of a dispatcher
Catalogue(a) ==
    IF a = "webscraper" THEN WebScraperCatalogue ELSE ResearchCatalogue

\* tool names a caller may send
ToolNames == WebScraperCatalogue \cup ResearchCatalogue \cup {"nope"}

SearchRequests == (0..MaxSmallReq) \cup {SEARCH_CAP, SEARCH_CAP + 1}
ScrapeRequests == (0..MaxSmallReq) \cup {SCRAPE_CAP, SCRAPE_CAP + 1}

\* argument mappings of a search tool whose optional argument is key
SearchArguments(key, values) ==
    [query : Queries] \cup
    {DictSet([query |-> q], key, v) : q \in Queries, v \in values}

\* json.dumps(result, indent=2): the text that denotes the dict r
JsonDumps(r) == [json |-> r]

\* CallToolResult(content=[TextContent(type="text", text=...)])
CallToolResult(r, isError) ==
    [content |-> <<[type |-> "text", text |-> JsonDumps(r)]>>,
     isError |-> isError]

\* what the entry point hands back for the tool's return value r
Deliver(a, r) == IF a = "webscraper" THEN CallToolResult(r, FALSE) ELSE r

\* a function that returned nothing
ReturnedNone == [none |-> TRUE]

Init ==
    /\ app \in Apps
    /\ pc = "idle"
    /\ call = Unset
    /\ frame = Unset
    /\ num_results = 0
    /\ search_result = Unset
    /\ idx = 0
    /\ enriched_results = <<>>
    /\ result = Unset
    /\ reply = Unset
    /\ log = <<>>
    /\ faults = 0
    /\ memory = <<>>

\* the tool operation returns r
Return(r) ==
    /\ result' = r
    /\ reply' = Deliver(app, r)
    /\ pc' = "done"

\* web_search / news_search, from call to return
RunSearch(kind, q, max_results) ==
    LET m == SearchArg(app, max_results) IN
    \E resp \in SearchResponses(m) :
        /\ log' = Append(log, SearchCall(kind, q, m, resp))
        /\ Return(IF kind = "text" THEN web_search(app, q, resp)
                                   ELSE news_search(app, q, resp))
        /\ UNCHANGED <<num_results, search_result, idx,
                       enriched_results, faults>>

\* search_and_scrape up to the first page fetch: clamp, search, short-circuit
RunScrapeStart(q, n) ==
    LET nr == ScrapeClamp(app, n)
        m == SearchArg(app, nr)
    IN  \E resp \in SearchResponses(m) :
            LET sr == web_search(app, q, resp) IN
            /\ log' = Append(log, SearchCall("text", q, m, resp))
            /\ IF ~sr.success
               THEN /\ Return(sr)
                    /\ UNCHANGED <<num_results, search_result,
                                   enriched_results>>
               ELSE /\ pc' = "loop"
                    /\ num_results' = nr
                    /\ search_result' = sr
                    /\ enriched_results' = <<>>
                    /\ UNCHANGED <<result, reply>>
            /\ UNCHANGED <<idx, faults>>

InvokeWebSearch ==
    /\ pc = "idle"
    /\ app \in SearchApps
    /\ \E args \in SearchArguments("max_results", SearchRequests) :
        LET m == DictGet(args, "max_results", DEFAULT_MAX_RESULTS) IN
        /\ call' = [tool |-> "web_search", args |-> args]
        /\ frame' = [op |-> "web_search", arg |-> m]
        /\ RunSearch("text", args.query, m)
    /\ UNCHANGED <<app, memory>>

InvokeNewsSearch ==
    /\ pc = "idle"
    /\ app \in SearchApps
    /\ \E args \in SearchArguments("max_results", SearchRequests) :
        LET m == DictGet(args, "max_results", DEFAULT_MAX_RESULTS) IN
        /\ call' = [tool |-> "news_search", args |-> args]
        /\ frame' = [op |-> "news_search", arg |-> m]
        /\ RunSearch("news", args.query, m)
    /\ UNCHANGED <<app, memory>>

InvokeSearchAndScrape ==
    /\ pc = "idle"
    /\ app \in SearchApps
    /\ \E args \in SearchArguments("num_results", ScrapeRequests) :
        LET n == DictGet(args, "num_results", DEFAULT_NUM_RESULTS) IN
        /\ call' = [tool |-> "search_and_scrape", args |-> args]
        /\ frame' = [op |-> "search_and_scrape", arg |-> n]
        /\ RunScrapeStart(args.query, n)
    /\ UNCHANGED <<app, memory>>

InvokeSmartSearch ==
    /\ pc = "idle"
    /\ app \in SearchApps
    /\ \E args \in SearchArguments("mode", Modes) :
        LET route == SmartRoute(DictGet(args, "mode", "comprehensive")) IN
        /\ call' = [tool |-> "smart_search", args |-> args]
        /\ frame' = route
        /\ IF route.op = "web_search"
           THEN RunSearch("text", args.query, route.arg)
           ELSE RunScrapeStart(args.query, route.arg)
    /\ UNCHANGED <<app, memory>>

\* FetchStep without the handler inside the loop: a fault leaves the loop
FetchStepPropagates(a, item, out) ==
    IF out = Raised
    THEN [next |-> "abort", add |-> <<>>]
    ELSE IF Truthy(out)
         THEN [next |-> "extract", add |-> <<>>]
         ELSE [next |-> "loop", add |-> <<EnrichNoDownload(item)>>]

\* what the loop body does with the value fetch_url gave for item: the next
\* position and the EnrichedResults appended; a fault is caught by the
\* handler inside the loop
FetchStep(a, item, out) ==
    IF out = Raised
    THEN [next |-> "loop", add |-> <<EnrichError(a, item, FetchFaultMsg)>>]
    ELSE IF Truthy(out)
         THEN [next |-> "extract", add |-> <<>>]
         ELSE [next |-> "loop", add |-> <<EnrichNoDownload(item)>>]

\* ExtractStep that keeps the EnrichedResult back instead of appending it
\* before the next item is fetched
ExtractStepDefers(a, item, out) == [next |-> "loop", add |-> <<>>]

\* what the loop body does with the value extract gave for item
ExtractStep(a, item, out) ==
    IF out = Raised
    THEN [next |-> "loop", add |-> <<EnrichError(a, item, ExtractFaultMsg)>>]
    ELSE [next |-> "loop", add |-> <<EnrichExtracted(item, out)>>]

\* the handler around the whole of search_and_scrape
ScrapeFailure(q, msg) == [success |-> FALSE, query |-> q, error |-> msg]

\* the loop body from the download to the append, on the outcomes o
LoopBody(a, item, o) ==
    LET fetched == FetchStep(a, item, o[1]) IN
    IF fetched.next = "extract" THEN ExtractStep(a, item, o[2]) ELSE fetched

\* ItemCalls of a loop body that downloads a second time after a download
\* that gave no document
ItemCallsRetrying(url, o) ==
    <<FetchCall(url, o[1])>> \o
    (IF o[1] = Doc(url) THEN <<>> ELSE <<FetchCall(url, o[1])>>) \o
    (IF o[2] = NotCalled THEN <<>> ELSE <<ExtractCall(url, o[2])>>)

\* the external calls of one pass of the loop body on the outcomes o
ItemCalls(url, o) ==
    <<FetchCall(url, o[1])>> \o
    (IF o[2] = NotCalled THEN <<>> ELSE <<ExtractCall(url, o[2])>>)

\* one pass of the loop: download, extraction, append and pacing delay; a
\* fault that leaves the loop body ("abort") ends the call in the handler
\* around the whole operation
ScrapeItem ==
    /\ pc = "loop"
    /\ idx < Len(Items)
    /\ LET item == Items[idx + 1]
           url == item.url
       IN  \E o \in ItemOutcomes(url) :
            LET ok == o = <<Doc(url), PageText(url)>>
                step == LoopBody(app, item, o)
            IN  /\ ~ok => faults < MaxFaults
                /\ faults' = IF ok THEN faults ELSE faults + 1
                /\ IF step.next = "abort"
                   THEN /\ Return(ScrapeFailure(search_result.query,
                                    IF o[1] = Raised THEN FetchFaultMsg
                                    ELSE ExtractFaultMsg))
                        /\ log' = log \o ItemCalls(url, o)
                        /\ UNCHANGED <<enriched_results, idx>>
                   ELSE /\ enriched_results' = enriched_results \o step.add
                        /\ log' = log \o ItemCalls(url, o) \o
                                  (IF SleepsAfter(app, idx + 1, num_results)
                                   THEN <<SleepCall>> ELSE <<>>)
                        /\ idx' = idx + 1
                        /\ UNCHANGED <<pc, result, reply>>
    /\ UNCHANGED <<app, call, frame, num_results, search_result, memory>>

\* after the loop: the success envelope
ReturnScrape ==
    /\ pc = "loop"
    /\ idx = Len(Items)
    /\ Return(SearchSuccess(search_result.query, enriched_results))
    /\ UNCHANGED <<app, call, frame, num_results, search_result, idx,
                  enriched_results, log, faults, memory>>

\* the invocation is over; its locals are gone
Finish ==
    /\ pc \in {"done", "responded"}
    /\ pc' = "idle"
    /\ call' = Unset
    /\ frame' = Unset
    /\ num_results' = 0
    /\ search_result' = Unset
    /\ idx' = 0
    /\ enriched_results' = <<>>
    /\ result' = Unset
    /\ reply' = Unset
    /\ log' = <<>>
    /\ faults' = 0
    /\ UNCHANGED <<app, memory>>

----------------------------------------------------------------------------
(* call_tool of src/src/server.py: the names it does not route to a tool. *)

\* names the if/elif chain of the dispatcher routes to a WebScraper method
WebScraperRouted ==
    {"scrape_html", "extract_links", "extract_metadata", "scrape_table",
     "web_search", "search_and_scrape", "extract_article", "smart_search",
     "news_search"}

\* the dict of the else branch
UnknownToolResult(name) ==
    [success |-> FALSE, error |-> <<"Unknown tool: ", name>>]

\* str(KeyError(key))
KeyErrorMsg(key) == <<"'", key, "'">>

\* the dict of the dispatcher's exception handler
DispatchFailure(msg) == [success |-> FALSE, error |-> msg]

CallToolUnknown ==
    /\ pc = "idle"
    /\ app = "webscraper"
    /\ \E name \in ToolNames \ WebScraperRouted, args \in [query : Queries] :
        /\ call' = [tool |-> name, args |-> args]
        /\ frame' = [op |-> "none", arg |-> 0]
        /\ result' = UnknownToolResult(name)
        /\ reply' = CallToolResult(UnknownToolResult(name), FALSE)
    /\ pc' = "done"
    /\ UNCHANGED <<app, num_results, search_result, idx,
                   enriched_results, log, faults, memory>>

\* the argument the dispatcher reads with arguments[...] for a routed name
RequiredKey(name) ==
    IF name \in {"web_search", "search_and_scrape", "smart_search",
                 "news_search"}
    THEN "query" ELSE "url"

\* arguments["query"] or arguments["url"] raises KeyError before any tool
\* is called
CallToolMissingArgument ==
    /\ pc = "idle"
    /\ app = "webscraper"
    /\ \E name \in WebScraperRouted :
        /\ call' = [tool |-> name, args |-> <<>>]
        /\ frame' = [op |-> "none", arg |-> 0]
        /\ reply' = CallToolResult(
                        DispatchFailure(KeyErrorMsg(RequiredKey(name))), TRUE)
    /\ pc' = "done"
    /\ UNCHANGED <<app, num_results, search_result, idx,
                   enriched_results, result, log, faults, memory>>

----------------------------------------------------------------------------
(* call_tool of src/server.py. *)

SCRAPE_URL_LIMIT == 15000

Notes == {"n1", "n2"}
Refs == {"r1"}
Urls == {<<"http", "x", 1>>, <<"http", "x", 2>>}

\* TextContent(type="text", text=t)
TextContent(t) == [type |-> "text", text |-> t]
\* TextContent(type="text", text=f"Error: {e}", isError=True)
ErrorContent(msg) ==
    [type |-> "text", text |-> <<"Error: ">> \o msg, isError |-> TRUE]
\* a return value that is a list of one TextContent
ListReply(tc) == [list |-> <<tc>>]

\* "\n".join(lines)
RECURSIVE Join(_, _)
Join(sep, lines) ==
    IF lines = <<>> THEN <<>>
    ELSE IF Len(lines) = 1 THEN Head(lines)
         ELSE Head(lines) \o sep \o Join(sep, Tail(lines))

\* the text search_web answers with
SearchWebText(q, n) ==
    <<"Search Results for '", q, "':\n">> \o
    Join(<<"\n">>,
         [i \in 1..n |-> <<"- ">> \o TextHit(q, i).title \o <<": ">> \o
                          TextHit(q, i).href])

\* md(page.content()) of the page at url
PageMarkdown(url) == <<"#", " ">> \o PageText(url)

\* q_client.query(..., limit=3): the nearest stored documents, nearest first
QueryHits ==
    LET k == Min(RETRIEVE_LIMIT, Len(memory)) IN
    {h \in [1..k -> 1..Len(memory)] :
        \A i, j \in 1..k : i # j => h[i] # h[j]}

\* the text retrieve_memory answers with for the hits h
RetrieveText(h) ==
    IF h = <<>>
    THEN <<"No matching memories found.">>
    ELSE <<"Relevant Memories:\n">> \o
         Join(<<"\n---\n">>,
              [i \in 1..Len(h) |-> <<"[Ref: ", memory[h[i]].ref, "] ",
                                     memory[h[i]].document>>])

\* an invocation of call_tool ends with the return value r
ResearchReturn(name, args, r) ==
    /\ call' = [tool |-> name, args |-> args]
    /\ reply' = r
    /\ pc' = "done"
    /\ UNCHANGED <<app, num_results, search_result, idx,
                   enriched_results, result, faults>>

ResearchSearchWeb ==
    /\ pc = "idle"
    /\ app = "research"
    /\ \E args \in [query : Queries],
          resp \in SearchResponses(RESEARCH_SEARCH_RESULTS) :
        /\ log' = Append(log, SearchCall("text", args.query,
                                         RESEARCH_SEARCH_RESULTS, resp))
        /\ ResearchReturn("search_web", args,
              IF resp.ok
              THEN ListReply(TextContent(SearchWebText(args.query, resp.n)))
              ELSE ListReply(ErrorContent(SearchFaultMsg)))
    /\ frame' = [op |-> "search_web", arg |-> RESEARCH_SEARCH_RESULTS]
    /\ UNCHANGED memory

ResearchScrapeUrl ==
    /\ pc = "idle"
    /\ app = "research"
    /\ \E args \in [url : Urls], ok \in BOOLEAN :
        /\ log' = Append(log, FetchCall(args.url,
                             IF ok THEN Doc(args.url) ELSE Raised))
        /\ ResearchReturn("scrape_url", args,
              IF ok
              THEN ListReply(TextContent(
                       Prefix(PageMarkdown(args.url), SCRAPE_URL_LIMIT)))
              ELSE ListReply(ErrorContent(FetchFaultMsg)))
    /\ frame' = [op |-> "scrape_url", arg |-> 0]
    /\ UNCHANGED memory

ResearchStoreMemory ==
    /\ pc = "idle"
    /\ app = "research"
    /\ Len(memory) < MaxNotes
    /\ \E args \in [text : Notes] \cup [text : Notes, metadata : Refs] :
        /\ memory' = Append(memory,
                       [document |-> args.text,
                        ref |-> DictGet(args, "metadata", "general")])
        /\ ResearchReturn("store_memory", args,
              ListReply(TextContent(<<"Memory stored successfully.">>)))
    /\ frame' = [op |-> "store_memory", arg |-> 0]
    /\ UNCHANGED log

ResearchRetrieveMemory ==
    /\ pc = "idle"
    /\ app = "research"
    /\ \E args \in [query : Queries], h \in QueryHits :
        ResearchReturn("retrieve_memory", args,
                       ListReply(TextContent(RetrieveText(h))))
    /\ frame' = [op |-> "retrieve_memory", arg |-> RETRIEVE_LIMIT]
    /\ UNCHANGED <<log, memory>>

\* a required key is missing: the KeyError reaches the exception handler
ResearchMissingArgument ==
    /\ pc = "idle"
    /\ app = "research"
    /\ \E name \in ResearchCatalogue :
        ResearchReturn(name, <<>>,
            ListReply(ErrorContent(KeyErrorMsg(
                IF name = "scrape_url" THEN "url"
                ELSE IF name = "store_memory" THEN "text" ELSE "query"))))
    /\ frame' = [op |-> "none", arg |-> 0]
    /\ UNCHANGED <<log, memory>>

\* no branch of the if/elif chain matches: the function ends without a return
ResearchUnknown ==
    /\ pc = "idle"
    /\ app = "research"
    /\ \E name \in ToolNames \ ResearchCatalogue, args \in [query : Queries] :
        ResearchReturn(name, args, ReturnedNone)
    /\ frame' = [op |-> "none", arg |-> 0]
    /\ UNCHANGED <<log, memory>>

----------------------------------------------------------------------------
(* Text Normalizer: clean_text / WebScraper._clean_text. *)

\* longest text of a node of a page
MaxText == 4

\* the characters \s matches and strip() removes
Whitespace == {" ", "\n", "\t"}

\* the texts of at most MaxText characters: a letter, a space, a newline
Texts == UNION {[1..n -> {"a", " ", "\n"}] : n \in 0..MaxText}

\* text.lstrip()
RECURSIVE LStrip(_)
LStrip(s) ==
    IF s = <<>> THEN <<>>
    ELSE IF Head(s) \in Whitespace THEN LStrip(Tail(s)) ELSE s

\* text.rstrip()
RECURSIVE RStrip(_)
RStrip(s) ==
    IF s = <<>> THEN <<>>
    ELSE IF s[Len(s)] \in Whitespace
         THEN RStrip(SubSeq(s, 1, Len(s) - 1)) ELSE s

\* re.sub(r'\s', ' ', text): every whitespace character on its own
RECURSIVE ReSubEachSpace(_)
ReSubEachSpace(s) ==
    IF s = <<>> THEN <<>>
    ELSE IF Head(s) \in Whitespace
         THEN <<" ">> \o ReSubEachSpace(Tail(s))
         ELSE <<Head(s)>> \o ReSubEachSpace(Tail(s))

\* re.sub(r'\s+', ' ', text): every maximal run of whitespace becomes " "
RECURSIVE ReSubSpaces(_)
ReSubSpaces(s) ==
    IF s = <<>> THEN <<>>
    ELSE IF Head(s) \in Whitespace
         THEN <<" ">> \o ReSubSpaces(LStrip(Tail(s)))
         ELSE <<Head(s)>> \o ReSubSpaces(Tail(s))

\* clean_text(text): "" for None and "", else collapse and strip
clean_text(text) ==
    IF ~Truthy(text) THEN EmptyStr ELSE RStrip(LStrip(ReSubSpaces(text)))

----------------------------------------------------------------------------
(* Page Fetcher: session.get(url, timeout=10) and raise_for_status(). *)

\* what a GET may give when the page behind the url is one of pages: the
\* parsed page, or the message of the fault that session.get (network) or
\* raise_for_status (a non-2xx status) raised
GetOutcomes(pages) ==
    {[page |-> p] : p \in pages} \cup
    {[fault |-> <<"connection failed">>], [fault |-> <<"404 Client Error">>]}

\* session.get returned and raise_for_status did not raise
Fetched(out) == "page" \in DOMAIN out

GetCall(url, out) == [ev |-> "get", arg |-> url, out |-> out]

\* ScrapeToolFailure that also carries an empty content list
ScrapeToolFailureWithContent(url, msg) ==
    [success |-> FALSE, url |-> url, error |-> msg, content |-> <<>>]

\* the failure envelope of a scraping tool
ScrapeToolFailure(url, msg) == [success |-> FALSE, url |-> url, error |-> msg]

\* a tool operation that runs in one step returns r after the calls in lg
ToolReturn(name, args, lg, r) ==
    /\ call' = [tool |-> name, args |-> args]
    /\ frame' = [op |-> name, arg |-> 0]
    /\ log' = lg
    /\ Return(r)
    /\ UNCHANGED <<app, num_results, search_result, idx, enriched_results,
                   faults, memory>>

\* the url the scraping tools are called with
PageUrl == <<"http", "x", 1>>

----------------------------------------------------------------------------
(* Structural Extractors: scrape_html. *)

\* the documents scrape_html is run on: a paragraph, alone or after a script
HtmlPages ==
    {<<[tag |-> "p", text |-> t]>> : t \in Texts} \cup
    {<<[tag |-> "script", text |-> <<"j">>], [tag |-> "p", text |-> t]>> :
        t \in Texts}

\* the nodes scrape_html reads: soup.select(selector) for a selector that is
\* a tag name, or the document after decompose() of its script and style
\* nodes
Elements(doc, selector) ==
    IF Truthy(selector)
    THEN SelectSeq(doc, LAMBDA n : <<n.tag>> = selector)
    ELSE SelectSeq(doc, LAMBDA n : n.tag \notin {"script", "style"})

\* the list `content` of scrape_html
HtmlContent(doc, selector) ==
    LET elements == Elements(doc, selector) IN
    IF Truthy(selector)
    THEN [i \in 1..Len(elements) |-> clean_text(elements[i].text)]
    ELSE <<clean_text(Join(<<>>, [i \in 1..Len(elements) |->
                                    elements[i].text]))>>

\* the list `html` of WebScraper.scrape_html: str(el), str(soup)
HtmlMarkup(doc, selector) ==
    LET elements == Elements(doc, selector)
        markup == [i \in 1..Len(elements) |->
                     <<"<", elements[i].tag, ">">> \o elements[i].text \o
                     <<"</", elements[i].tag, ">">>]
    IN  IF Truthy(selector) THEN markup ELSE <<Join(<<>>, markup)>>

\* what scrape_html returns on the GET outcome out
scrape_html(a, url, selector, out) ==
    IF ~Fetched(out)
    THEN ScrapeToolFailure(url, out.fault)
    ELSE LET content == HtmlContent(out.page, selector) IN
         IF a = "fastmcp"
         THEN [success |-> TRUE, url |-> url, content |-> content,
               count |-> Len(content)]
         ELSE [success |-> TRUE, url |-> url, content |-> content,
               html |-> HtmlMarkup(out.page, selector),
               count |-> Len(content)]

InvokeScrapeHtml ==
    /\ pc = "idle"
    /\ app \in SearchApps
    /\ \E args \in [url : {PageUrl}] \cup
                   [url : {PageUrl},
                    selector : {PyNone, EmptyStr, <<"p">>, <<"script">>}],
          out \in GetOutcomes(HtmlPages) :
        ToolReturn("scrape_html", args, <<GetCall(PageUrl, out)>>,
                   scrape_html(app, PageUrl,
                               DictGet(args, "selector", PyNone), out))

----------------------------------------------------------------------------
(* Structural Extractors: extract_links. *)

\* most anchors of a page
MaxAnchors == 2

\* the url extract_links is called with: scheme and host, then the path
LinkBase == <<"http://h", "/", "d", "/", "p">>

\* the <a> elements of a page: without an href, and with an href that is
\* empty, absolute, rooted at the host or relative to the page
Anchors ==
    {[text |-> <<"a">>]} \cup
    {[text |-> <<"\n", "a", " ">>, href |-> h] :
        h \in {EmptyStr, <<"http://g", "/", "q">>, <<"/", "q">>, <<"r">>}}

LinkPages == UNION {[1..n -> Anchors] : n \in 0..MaxAnchors}

\* a pattern re.search rejects
BadPattern == <<"(">>

\* filter patterns a caller may send: literal texts and a malformed one
Patterns ==
    {PyNone, EmptyStr, <<"q">>, <<"/", "q">>, <<"http://h">>,
     <<"http://h", "/", "d", "/", "r">>, BadPattern}

\* urljoin(url, href): url for an empty href, href when it has a scheme,
\* else href put after the host or after the directory of url
urljoin(url, href) ==
    LET slash == CHOOSE i \in 2..Len(url) :
                    url[i] = "/" /\ \A j \in (i + 1)..Len(url) : url[j] # "/"
    IN  IF href = <<>> THEN url
        ELSE IF href[1] \in {"http://g", "http://h"} THEN href
        ELSE IF href[1] = "/" THEN <<url[1]>> \o href
        ELSE SubSeq(url, 1, slash) \o href

\* re.fullmatch of a literal pattern
re_fullmatch(pattern, s) == pattern = s

\* re.search of a literal pattern: the first position where it matches
RECURSIVE re_search(_, _)
re_search(pattern, s) ==
    IF Len(pattern) <= Len(s) /\ SubSeq(s, 1, Len(pattern)) = pattern
    THEN TRUE
    ELSE IF s = <<>> THEN FALSE
    ELSE re_search(pattern, Tail(s))

\* soup.find_all('a', href=True)
AnchorsWithHref(page) == SelectSeq(page, LAMBDA a : "href" \in DOMAIN a)

\* the loop over the anchors: the links appended, or the fault re.search
\* raised on the first anchor it was called for
RECURSIVE LinksLoop(_, _, _)
LinksLoop(anchors, url, filter_pattern) ==
    IF anchors = <<>> THEN [raised |-> FALSE, links |-> <<>>]
    ELSE IF Truthy(filter_pattern) /\ filter_pattern = BadPattern
    THEN [raised |-> TRUE, links |-> <<>>]
    ELSE LET a_tag == Head(anchors)
             absolute_url == urljoin(url, a_tag.href)
             rest == LinksLoop(Tail(anchors), url, filter_pattern)
         IN  IF Truthy(filter_pattern)
                /\ ~re_search(filter_pattern, absolute_url)
             THEN rest
             ELSE [raised |-> rest.raised,
                   links |-> <<[text |-> clean_text(a_tag.text),
                                url |-> absolute_url]>> \o rest.links]

\* what extract_links returns on the GET outcome out
extract_links(url, filter_pattern, out) ==
    IF ~Fetched(out)
    THEN ScrapeToolFailure(url, out.fault)
    ELSE LET loop == LinksLoop(AnchorsWithHref(out.page), url,
                               filter_pattern)
         IN  IF loop.raised
             THEN ScrapeToolFailure(url,
                      <<"missing ), unterminated subpattern">>)
             ELSE [success |-> TRUE, source_url |-> url,
                   links |-> loop.links, count |-> Len(loop.links)]

InvokeExtractLinks ==
    /\ pc = "idle"
    /\ app \in SearchApps
    /\ \E args \in [url : {LinkBase}] \cup
                   [url : {LinkBase}, filter_pattern : Patterns],
          out \in GetOutcomes(LinkPages) :
        ToolReturn("extract_links", args, <<GetCall(LinkBase, out)>>,
                   extract_links(LinkBase,
                                 DictGet(args, "filter_pattern", PyNone),
                                 out))

----------------------------------------------------------------------------
(* Structural Extractors: extract_metadata. *)

\* most <meta> elements of a page
MaxMetas == 2

\* the keys of the dict `metadata`
MetadataKeys ==
    {"title", "description", "keywords", "author", "og_title",
     "og_description", "og_image"}

\* the <meta> elements of a page: their attributes
MetaTags ==
    {[name |-> "description", content |-> <<"D1">>],
     [name |-> "Description", content |-> <<"D2">>],
     [name |-> "keywords", content |-> <<"K">>],
     [name |-> "author"],
     [property |-> "og:title", content |-> <<"X">>],
     [property |-> "OG:Title", content |-> <<"Y">>],
     [property |-> "og:image", content |-> <<"I">>],
     [property |-> "og:description", content |-> <<"A">>],
     [name |-> "description", property |-> "og:description",
      content |-> <<"B">>],
     [name |-> "viewport", content |-> <<"V">>]}

\* a page without <title>: soup.title is None
NoTitle == <<"\\notitle">>

\* the pages extract_metadata is run on: no <title>, a <title> whose string
\* is None, or a <title> with a text; and the <meta> elements
MetaPages ==
    [title : {NoTitle, PyNone, <<" ", "T", "\n">>},
     metas : UNION {[1..n -> MetaTags] : n \in 0..MaxMetas}]

\* str.lower() on the attribute values in use
Lower(s) ==
    IF s = "Description" THEN "description"
    ELSE IF s = "OG:Title" THEN "og:title" ELSE s

\* the body of the loop over the <meta> elements
MetaStep(metadata, meta) ==
    LET name == Lower(DictGet(meta, "name", ""))
        property_name == Lower(DictGet(meta, "property", ""))
        content == DictGet(meta, "content", EmptyStr)
    IN  IF name = "description"
        THEN [metadata EXCEPT !["description"] = content]
        ELSE IF name = "keywords"
        THEN [metadata EXCEPT !["keywords"] = content]
        ELSE IF name = "author"
        THEN [metadata EXCEPT !["author"] = content]
        ELSE IF property_name = "og:title"
        THEN [metadata EXCEPT !["og_title"] = content]
        ELSE IF property_name = "og:description"
        THEN [metadata EXCEPT !["og_description"] = content]
        ELSE IF property_name = "og:image"
        THEN [metadata EXCEPT !["og_image"] = content]
        ELSE metadata

\* the loop over soup.find_all('meta')
RECURSIVE MetaLoop(_, _)
MetaLoop(metadata, metas) ==
    IF metas = <<>> THEN metadata
    ELSE MetaLoop(MetaStep(metadata, Head(metas)), Tail(metas))

\* what extract_metadata returns on the GET outcome out
extract_metadata(url, out) ==
    IF ~Fetched(out)
    THEN ScrapeToolFailure(url, out.fault)
    ELSE LET empty == [k \in MetadataKeys |-> PyNone]
             titled == IF out.page.title # NoTitle
                       THEN [empty EXCEPT
                               !["title"] = clean_text(out.page.title)]
                       ELSE empty
         IN  [success |-> TRUE, url |-> url,
              metadata |-> MetaLoop(titled, out.page.metas)]

InvokeExtractMetadata ==
    /\ pc = "idle"
    /\ app \in SearchApps
    /\ \E out \in GetOutcomes(MetaPages) :
        ToolReturn("extract_metadata", [url |-> PageUrl],
                   <<GetCall(PageUrl, out)>>,
                   extract_metadata(PageUrl, out))

----------------------------------------------------------------------------
(* Structural Extractors: scrape_table. *)

\* most <table> elements of a page
MaxTables == 2
\* most <tr> elements of a table body
MaxRows == 2

\* the <tr> elements in use: the texts of their cells
TableRows ==
    {<<>>,
     << <<"A">>, <<"B">> >>,
     << <<" ", "A">>, <<"B", "\n">> >>,
     << <<"1">>, <<"2">> >>}

\* the tables in use: the rows of the body, after a <thead> of at most one
\* row when the table has one
Tables ==
    LET bodies == UNION {[1..n -> TableRows] : n \in 0..MaxRows} IN
    [body : bodies] \cup
    [thead : {<<>>} \cup {<<r>> : r \in TableRows}, body : bodies]

\* whether the table has a <thead>: table.find('thead') is not None
HasThead(table) == "thead" \in DOMAIN table

\* pages of n tables: any table after n - 1 tables of one cell
TablePages ==
    {<<>>} \cup
    {[i \in 1..n |-> IF i = n THEN t ELSE [body |-> << << <<"f">> >> >>]] :
        n \in 1..MaxTables, t \in Tables}

\* the cleaned texts of the cells of a row
CellTexts(tr) == [i \in 1..Len(tr) |-> clean_text(tr[i])]

\* RowsLoop without the comparison with the headers
RECURSIVE RowsLoopKeepsHeaderRows(_, _)
RowsLoopKeepsHeaderRows(trs, headers) ==
    IF trs = <<>> THEN <<>>
    ELSE LET cells == CellTexts(Head(trs)) IN
         (IF cells # <<>> THEN <<cells>> ELSE <<>>)
         \o RowsLoopKeepsHeaderRows(Tail(trs), headers)

\* the loop over the rows: the rows appended
RECURSIVE RowsLoop(_, _)
RowsLoop(trs, headers) ==
    IF trs = <<>> THEN <<>>
    ELSE LET cells == CellTexts(Head(trs)) IN
         (IF cells # <<>> /\ cells # headers THEN <<cells>> ELSE <<>>)
         \o RowsLoop(Tail(trs), headers)

\* what scrape_table returns on the GET outcome out; tables[table_index]
\* counts from the end for a negative index and raises IndexError below
\* -len(tables)
scrape_table(url, table_index, out) ==
    IF ~Fetched(out)
    THEN ScrapeToolFailure(url, out.fault)
    ELSE LET tables == out.page
             n == Len(tables)
             table == tables[IF table_index >= 0 THEN table_index + 1
                             ELSE n + table_index + 1]
             thead == IF HasThead(table) THEN table.thead ELSE <<>>
             headers == Join(<<>>, [i \in 1..Len(thead) |->
                                      CellTexts(thead[i])])
             rows == RowsLoop(thead \o table.body, headers)
         IN  IF n = 0
             THEN ScrapeToolFailure(url, <<"No tables found on page">>)
             ELSE IF table_index >= n
             THEN ScrapeToolFailure(url,
                      <<"Table index ", ToString(table_index),
                        " out of range. Found ", ToString(n), " tables.">>)
             ELSE IF table_index < 0 - n
             THEN ScrapeToolFailure(url, <<"list index out of range">>)
             ELSE [success |-> TRUE, url |-> url, headers |-> headers,
                   rows |-> rows, row_count |-> Len(rows)]

InvokeScrapeTable ==
    /\ pc = "idle"
    /\ app \in SearchApps
    /\ \E args \in [url : {PageUrl}] \cup
                   [url : {PageUrl},
                    table_index : (0 - (MaxTables + 1))..MaxTables],
          out \in GetOutcomes(TablePages) :
        ToolReturn("scrape_table", args, <<GetCall(PageUrl, out)>>,
                   scrape_table(PageUrl,
                                DictGet(args, "table_index", 0), out))

----------------------------------------------------------------------------
(* Article Extractor: extract_article. *)

ArticleFaultMsg == <<"Article download() failed">>

\* article.publish_date when the date is not known
NoDate == [none |-> TRUE]

\* str() of a datetime
StrDate(d) == <<d.day, " 00:00:00">>

\* the Article objects download() and parse() may leave behind: the body
\* text is empty or not, the date known or not
Articles ==
    [title : {<<"T">>}, authors : {<< <<"Ann">> >>},
     publish_date : {[day |-> "2024-01-02"], NoDate},
     top_image : {<<"img">>},
     text : {EmptyStr, <<"b", "o", "d", "y", "!">>},
     summary : {EmptyStr}, keywords : {<<>>}]

\* whether the primary strategy raised in download() or parse()
PrimaryRaised(art) == "fault" \in DOMAIN art

\* the fallback strategy when a fault in it is swallowed
ArticleFallbackTolerant(o) ==
    [raised |-> FALSE, msg |-> EmptyStr,
     content |-> IF o[1] # Raised /\ Truthy(o[1]) /\ o[2] # Raised
                 THEN o[2] ELSE PyNone]

\* the fallback strategy on the outcomes o of fetch_url and extract: the
\* fault that leaves it, or trafilatura_content
ArticleFallback(o) ==
    IF o[1] = Raised
    THEN [raised |-> TRUE, msg |-> FetchFaultMsg, content |-> PyNone]
    ELSE IF ~Truthy(o[1])
    THEN [raised |-> FALSE, msg |-> EmptyStr, content |-> PyNone]
    ELSE IF o[2] = Raised
    THEN [raised |-> TRUE, msg |-> ExtractFaultMsg, content |-> PyNone]
    ELSE [raised |-> FALSE, msg |-> EmptyStr, content |-> o[2]]

\* the success envelope of extract_article
ArticleSuccess(a, url, art, trafilatura_content) ==
    LET content == IF art.text # EmptyStr THEN art.text
                   ELSE trafilatura_content
        date == IF art.publish_date # NoDate
                THEN StrDate(art.publish_date) ELSE PyNone
        length == IF Truthy(content) THEN Len(content) ELSE 0
    IN  IF a = "fastmcp"
        THEN [success |-> TRUE, url |-> url, title |-> art.title,
              authors |-> art.authors, publish_date |-> date,
              top_image |-> art.top_image, content |-> content,
              content_length |-> length]
        ELSE [success |-> TRUE, url |-> url, title |-> art.title,
              authors |-> art.authors, publish_date |-> date,
              top_image |-> art.top_image, content |-> content,
              summary |-> art.summary, keywords |-> art.keywords,
              content_length |-> length]

\* what extract_article returns on the outcomes of the two strategies
extract_article(a, url, art, o) ==
    IF PrimaryRaised(art)
    THEN ScrapeToolFailure(url, art.fault)
    ELSE LET fallback == ArticleFallback(o) IN
         IF fallback.raised
         THEN ScrapeToolFailure(url, fallback.msg)
         ELSE ArticleSuccess(a, url, art, fallback.content)

InvokeExtractArticle ==
    /\ pc = "idle"
    /\ app \in SearchApps
    /\ \E url \in Urls, art \in Articles \cup {[fault |-> ArticleFaultMsg]} :
        \E o \in ItemOutcomes(url) :
            /\ PrimaryRaised(art) => o = <<PyNone, NotCalled>>
            /\ ToolReturn("extract_article", [url |-> url],
                          <<[ev |-> "article", arg |-> url, out |-> art]>>
                          \o (IF PrimaryRaised(art) THEN <<>>
                              ELSE ItemCalls(url, o)),
                          extract_article(app, url, art, o))

----------------------------------------------------------------------------
(* Two search_and_scrape invocations in one process.                        *)
(*                                                                         *)
(* The process has one scraper (src/src/server.py: scraper = WebScraper(), *)
(* with its requests.Session); every invocation of search_and_scrape has   *)
(* its own frame of locals.  In the behaviours of PairSpec each variable   *)
(* of an invocation holds one value per invocation, and the steps of the   *)
(* two invocations are taken in any order, one whole loop pass at a time.  *)

\* most results an invocation of the pair asks for
MaxPairResults == 2

Invocations == {1, 2}

\* the query of each invocation: the urls found tell the searches apart
PairQuery(c) == IF c = 1 THEN "x" ELSE "y"

\* the slice the loop of invocation c iterates over
PairItems(c) == Prefix(search_result[c].results, num_results[c])

\* enriched_results.append(...) on a list that is an attribute of the one
\* scraper, so that both invocations append to the same list
AppendToShared(lists, c, add) == [k \in DOMAIN lists |-> lists[k] \o add]

\* enriched_results.append(...) in the frame of invocation c
AppendTo(lists, c, add) == [lists EXCEPT ![c] = lists[c] \o add]

PairInit ==
    /\ app \in SearchApps
    /\ pc = [c \in Invocations |-> "idle"]
    /\ call = [c \in Invocations |-> Unset]
    /\ frame = [c \in Invocations |-> Unset]
    /\ num_results = [c \in Invocations |-> 0]
    /\ search_result = [c \in Invocations |-> Unset]
    /\ idx = [c \in Invocations |-> 0]
    /\ enriched_results = [c \in Invocations |-> <<>>]
    /\ result = [c \in Invocations |-> Unset]
    /\ reply = [c \in Invocations |-> Unset]
    /\ log = <<>>
    /\ faults = 0
    /\ memory = <<>>

\* invocation c returns r
PairReturn(c, r) ==
    /\ result' = [result EXCEPT ![c] = r]
    /\ reply' = [reply EXCEPT ![c] = Deliver(app, r)]
    /\ pc' = [pc EXCEPT ![c] = "done"]

\* invocation c is called and runs up to its first page fetch
PairInvoke(c) ==
    /\ pc[c] = "idle"
    /\ \E n \in 1..MaxPairResults :
        LET q == PairQuery(c)
            nr == ScrapeClamp(app, n)
            m == SearchArg(app, nr)
        IN  /\ call' = [call EXCEPT ![c] =
                          [tool |-> "search_and_scrape",
                           args |-> [query |-> q, num_results |-> n]]]
            /\ frame' = [frame EXCEPT ![c] =
                           [op |-> "search_and_scrape", arg |-> n]]
            /\ \E resp \in SearchResponses(m) :
                LET sr == web_search(app, q, resp) IN
                IF ~sr.success
                THEN /\ PairReturn(c, sr)
                     /\ UNCHANGED <<num_results, search_result,
                                    enriched_results>>
                ELSE /\ pc' = [pc EXCEPT ![c] = "loop"]
                     /\ num_results' = [num_results EXCEPT ![c] = nr]
                     /\ search_result' = [search_result EXCEPT ![c] = sr]
                     /\ enriched_results' =
                          [enriched_results EXCEPT ![c] = <<>>]
                     /\ UNCHANGED <<result, reply>>
    /\ UNCHANGED <<app, idx, log, faults, memory>>

\* one pass of the loop of invocation c
PairScrapeItem(c) ==
    /\ pc[c] = "loop"
    /\ idx[c] < Len(PairItems(c))
    /\ LET item == PairItems(c)[idx[c] + 1] IN
       \E o \in ItemOutcomes(item.url) :
           /\ enriched_results' =
                AppendTo(enriched_results, c, LoopBody(app, item, o).add)
           /\ idx' = [idx EXCEPT ![c] = idx[c] + 1]
    /\ UNCHANGED <<app, pc, call, frame, num_results, search_result, result,
                   reply, log, faults, memory>>

\* invocation c leaves the loop and returns the success envelope
PairReturnScrape(c) ==
    /\ pc[c] = "loop"
    /\ idx[c] = Len(PairItems(c))
    /\ PairReturn(c, SearchSuccess(search_result[c].query,
                                   enriched_results[c]))
    /\ UNCHANGED <<app, call, frame, num_results, search_result, idx,
                   enriched_results, log, faults, memory>>

\* invocation c is over; its locals are gone
PairFinish(c) ==
    /\ pc[c] = "done"
    /\ pc' = [pc EXCEPT ![c] = "idle"]
    /\ call' = [call EXCEPT ![c] = Unset]
    /\ frame' = [frame EXCEPT ![c] = Unset]
    /\ num_results' = [num_results EXCEPT ![c] = 0]
    /\ search_result' = [search_result EXCEPT ![c] = Unset]
    /\ idx' = [idx EXCEPT ![c] = 0]
    /\ enriched_results' = [enriched_results EXCEPT ![c] = <<>>]
    /\ result' = [result EXCEPT ![c] = Unset]
    /\ reply' = [reply EXCEPT ![c] = Unset]
    /\ UNCHANGED <<app, log, faults, memory>>

PairNext ==
    \E c \in Invocations :
        \/ PairInvoke(c)
        \/ PairScrapeItem(c)
        \/ PairReturnScrape(c)
        \/ PairFinish(c)

PairSpec == PairInit /\ [][PairNext]_vars

----------------------------------------------------------------------------

(* call_tool_endpoint of src/src/server.py: POST /call-tool. *)

\* JSONResponse(status_code=..., content=...)
JSONResponse(status_code, content) ==
    [status_code |-> status_code, content |-> content]

\* request bodies the endpoint cannot hand to call_tool: a body that is not
\* JSON (request.json() raises) and a JSON array (data.get raises), with
\* str(e) of the fault
BadRequests ==
    {[json |-> FALSE,
      error |-> <<"Expecting value: line 1 column 1 (char 0)">>],
     [json |-> TRUE,
      error |-> <<"'list' object has no attribute 'get'">>]}

\* the response with the outer success copied from the result of the tool
EndpointMirrorsTool(r) ==
    JSONResponse(200, [success |-> r.content[1].text.json.success,
                       result |-> r.content[1].text])

\* the response for the CallToolResult r that call_tool returned
EndpointSuccess(r) ==
    JSONResponse(200, [success |-> TRUE, result |-> r.content[1].text])

\* the response of the handler `except Exception`
EndpointFailure(msg) ==
    JSONResponse(500, [success |-> FALSE, error |-> msg])

\* the body was a JSON object and call_tool, called with its name and
\* arguments, has returned: the endpoint answers
EndpointRespond ==
    /\ pc = "done"
    /\ app = "webscraper"
    /\ pc' = "responded"
    /\ frame' = [op |-> "call_tool_endpoint", arg |-> 0]
    /\ reply' = EndpointSuccess(reply)
    /\ UNCHANGED <<app, call, num_results, search_result, idx,
                   enriched_results, result, log, faults, memory>>

\* reading the request raises before call_tool is called
EndpointBadRequest ==
    /\ pc = "idle"
    /\ app = "webscraper"
    /\ \E body \in BadRequests :
        /\ call' = [body |-> body]
        /\ reply' = EndpointFailure(body.error)
    /\ pc' = "responded"
    /\ frame' = [op |-> "call_tool_endpoint", arg |-> 0]
    /\ UNCHANGED <<app, num_results, search_result, idx,
                   enriched_results, result, log, faults, memory>>

----------------------------------------------------------------------------

Next ==
    \/ InvokeWebSearch
    \/ InvokeNewsSearch
    \/ InvokeSearchAndScrape
    \/ InvokeSmartSearch
    \/ ScrapeItem
    \/ ReturnScrape
    \/ CallToolUnknown
    \/ CallToolMissingArgument
    \/ ResearchSearchWeb
    \/ ResearchScrapeUrl
    \/ ResearchStoreMemory
    \/ ResearchRetrieveMemory
    \/ ResearchMissingArgument
    \/ ResearchUnknown
    \/ InvokeScrapeHtml
    \/ InvokeExtractLinks
    \/ InvokeExtractMetadata
    \/ InvokeScrapeTable
    \/ InvokeExtractArticle
    \/ EndpointRespond
    \/ EndpointBadRequest
    \/ Finish

Spec == Init /\ [][Next]_vars

\* the process when every external call and every pacing delay returns: a
\* loop pass that has started ends, and the return after the loop is taken
LiveSpec == Spec /\ WF_vars(ScrapeItem) /\ WF_vars(ReturnScrape)

----------------------------------------------------------------------------
(* What an invocation did, read from its log of external calls. *)

\* the entries of the log for one kind of external call
Calls(ev) == SelectSeq(log, LAMBDA e : e.ev = ev)

\* the urls fetched, in order
FetchedUrls == [i \in 1..Len(Calls("fetch")) |-> Calls("fetch")[i].arg]

\* the log entry of kind ev for url
EntryFor(lg, ev, url) ==
    lg[CHOOSE i \in 1..Len(lg) : lg[i].ev = ev /\ lg[i].arg = url]

\* the EnrichedResult the loop body builds for item on the outcomes in lg
Replayed(a, item, lg) ==
    LET step == FetchStep(a, item, EntryFor(lg, "fetch", item.url).out) IN
    IF step.next = "extract"
    THEN ExtractStep(a, item, EntryFor(lg, "extract", item.url).out).add[1]
    ELSE step.add[1]

\* what search_and_scrape(q, n) returns on the external responses in lg
search_and_scrape(a, q, n, lg) ==
    LET sr == web_search(a, q, lg[1].out) IN
    IF ~sr.success
    THEN sr
    ELSE LET items == Prefix(sr.results, ScrapeClamp(a, n)) IN
         SearchSuccess(q, [i \in 1..Len(items) |-> Replayed(a, items[i], lg)])

\* a search_and_scrape call is under way or has returned
InScrape == pc # "idle" /\ frame.op = "search_and_scrape"

\* a search_and_scrape call has returned, entered directly or by smart_search
ScrapeDone == pc = "done" /\ frame.op = "search_and_scrape"

\* the capability's response to the search step of the invocation
SearchResponse == log[1].out

\* whether the outcome of the item with this url is Success(text): it was
\* downloaded and the extraction gave a non-empty text
ExtractedOk(url) ==
    /\ EntryFor(log, "fetch", url).out = Doc(url)
    /\ LET text == EntryFor(log, "extract", url).out IN
       text # Raised /\ Truthy(text)

Placeholders ==
    {PlaceholderNoDownload, PlaceholderNoContent,
     ErrorPrefix(app) \o FetchFaultMsg, ErrorPrefix(app) \o ExtractFaultMsg}

----------------------------------------------------------------------------
(* Claims. *)

\* C1: search_and_scrape(query, k), when the search step succeeds and
\* returns exactly k results (1 <= k <= 10), returns exactly k
\* EnrichedResults whose urls are, position by position, the urls of the
\* search results, whatever the per-item outcomes were.
C1_OneResultPerSearchResult ==
    (/\ ScrapeDone
     /\ call.tool = "search_and_scrape"
     /\ SearchResponse.ok
     /\ LET k == DictGet(call.args, "num_results", 5) IN
        1 <= k /\ k <= 10 /\ SearchResponse.n = k)
    => LET k == SearchResponse.n
           found == web_search(app, call.args.query, SearchResponse).results
       IN  /\ result.success
           /\ Len(result.results) = k
           /\ result.count = k
           /\ \A i \in 1..k : result.results[i].url = found[i].url

\* C1 witness: a call for three results answered with three, of which one
\* download failed, one extraction raised and one succeeded
C1_Witness ==
    /\ ScrapeDone
    /\ call.tool = "search_and_scrape"
    /\ "num_results" \in DOMAIN call.args
    /\ call.args.num_results = 3
    /\ SearchResponse.ok /\ SearchResponse.n = 3
    /\ Len(result.results) = 3
    /\ result.results[1].content = PlaceholderNoDownload
    /\ result.results[2].content = ErrorPrefix(app) \o ExtractFaultMsg
    /\ result.results[3].content_length > 0

\* C2: if the web_search step of search_and_scrape fails, the call returns
\* that failure unchanged (success false, an error, no results) and makes no
\* page fetch and holds no pacing delay.
C2_SearchFailureShortCircuits ==
    (InScrape /\ ~SearchResponse.ok)
    => /\ pc = "done"
       /\ result = web_search(app, call.args.query, SearchResponse)
       /\ result.success = FALSE
       /\ "error" \in DOMAIN result
       /\ "results" \notin DOMAIN result
       /\ Len(log) = 1
       /\ Calls("fetch") = <<>> /\ Calls("sleep") = <<>>
       /\ enriched_results = <<>>

\* C2 witness: a search_and_scrape call whose search failed after one hit
C2_Witness ==
    /\ ScrapeDone
    /\ call.tool = "search_and_scrape"
    /\ ~SearchResponse.ok /\ SearchResponse.n = 1
    /\ result.error = SearchFaultMsg

\* C3: once the search step has succeeded, no per-item outcome makes the
\* call return success=false or stops the remaining items: the call ends
\* with success=true and every item of the slice was fetched, in order.
C3_ItemFaultsNeverAbort ==
    (ScrapeDone /\ SearchResponse.ok)
    => LET items == Prefix(search_result.results, num_results) IN
       /\ result.success
       /\ FetchedUrls = [i \in 1..Len(items) |-> items[i].url]
       /\ Len(result.results) = Len(items)

\* C3 witness: the first fetch raised, the second item's extraction raised,
\* and a third item was still fetched
C3_Witness ==
    /\ ScrapeDone
    /\ SearchResponse.ok
    /\ Len(Calls("fetch")) >= 3
    /\ Calls("fetch")[1].out = Raised
    /\ Len(Calls("extract")) >= 1
    /\ Calls("extract")[1].out = Raised
    /\ result.success

\* C4: every EnrichedResult has content_length 0 and a placeholder content
\* when its outcome is download-failed, extraction-empty or exception, and
\* has the extracted text and its length when extraction gave non-empty
\* text; so content_length > 0 exactly when content is the extracted text.
C4_ContentLengthMatchesOutcome ==
    (ScrapeDone /\ result.success)
    => \A i \in 1..Len(result.results) :
        LET r == result.results[i]
            extracted == ExtractedOk(r.url)
        IN  /\ IF extracted
               THEN /\ r.content = EntryFor(log, "extract", r.url).out
                    /\ r.content_length = Len(r.content)
               ELSE /\ r.content \in Placeholders
                    /\ r.content_length = 0
            /\ r.content_length > 0 <=> extracted

\* C4 witness: one batch with an extracted text of two characters, an empty
\* extraction and an absent one
C4_Witness ==
    /\ ScrapeDone
    /\ result.success
    /\ Len(result.results) >= 3
    /\ \E i, j, k \in 1..Len(result.results) :
        LET ri == result.results[i]
            uj == result.results[j].url
            uk == result.results[k].url
        IN  /\ ri.content_length = 2
            /\ ri.content = <<"H", "i">>
            /\ EntryFor(log, "fetch", uj).out = Doc(uj)
            /\ EntryFor(log, "extract", uj).out = EmptyStr
            /\ EntryFor(log, "fetch", uk).out = Doc(uk)
            /\ EntryFor(log, "extract", uk).out = PyNone

\* C5: every EnrichedResult carries every field of the SearchResult it was
\* built from (title, url, snippet, and source when the search step supplied
\* it) plus content and content_length, whatever its outcome; so all items
\* of one batch have the same set of fields.
C5_EnrichedKeepsSearchFields ==
    ScrapeDone /\ SearchResponse.ok
    => \A i \in 1..Len(result.results) :
        LET r == result.results[i]
            found == search_result.results[i]
        IN  /\ DOMAIN r = DOMAIN found \cup {"content", "content_length"}
            /\ \A f \in DOMAIN found : r[f] = found[f]
            /\ DOMAIN r = DOMAIN result.results[1]

\* C6: search_and_scrape clamps num_results to 10: the search step is asked
\* for at most 10 results, at most 10 pages are fetched and at most 10
\* EnrichedResults are returned.
C6_ScrapeClampedToTen ==
    InScrape
    => /\ log[1].arg[3] <= 10
       /\ Len(Calls("fetch")) <= 10
       /\ Len(enriched_results) <= 10
       /\ (ScrapeDone /\ result.success) => Len(result.results) <= 10

\* C7: web_search and news_search hand min(max_results, 20) to the external
\* search capability, for every requested max_results.
C7_SearchClampedToTwenty ==
    (pc = "done" /\ call.tool \in {"web_search", "news_search"}
     /\ frame.op = call.tool)
    => /\ Len(log) = 1
       /\ log[1].arg[3] =
            Min(DictGet(call.args, "max_results", 10),
                20)

\* C8: a search_and_scrape call that processes k >= 1 items holds exactly
\* k - 1 pacing delays and none after the final item, also when the search
\* returned fewer results than num_results.
C8_DelayOnlyBetweenItems ==
    (ScrapeDone /\ result.success /\ Len(result.results) >= 1)
    => /\ Len(Calls("sleep")) = Len(result.results) - 1
       /\ log[Len(log)].ev # "sleep"

\* C9: smart_search routes by mode and rejects none: "quick" returns what
\* web_search(query, 3) returns, "standard" what web_search(query, 5)
\* returns, and every other mode what search_and_scrape(query, 10) returns,
\* on the same external responses.
C9_SmartSearchRoutes ==
    (pc = "done" /\ call.tool = "smart_search" /\ frame.op # "none")
    => LET mode == DictGet(call.args, "mode", "comprehensive")
           q == call.args.query
       IN  IF mode \in {"quick", "standard"}
           THEN LET n == IF mode = "quick" THEN 3 ELSE 5 IN
                /\ frame = [op |-> "web_search", arg |-> n]
                /\ log = <<SearchCall("text", q, SearchArg(app, n),
                                      SearchResponse)>>
                /\ result = web_search(app, q, SearchResponse)
           ELSE /\ frame = [op |-> "search_and_scrape", arg |-> 10]
                /\ log[1] = SearchCall("text", q,
                                SearchArg(app, ScrapeClamp(app, 10)),
                                SearchResponse)
                /\ result = search_and_scrape(app, q, 10, log)
                /\ result.success
                   => Len(Calls("fetch")) = Len(result.results)

\* C9 witness: an unrecognized mode went down the scraping path and
\* returned scraped content
C9_Witness ==
    /\ pc = "done"
    /\ call.tool = "smart_search"
    /\ "mode" \in DOMAIN call.args
    /\ call.args.mode = "deep"
    /\ frame.op = "search_and_scrape"
    /\ result.success
    /\ Len(result.results) = 10
    /\ result.results[10].content_length > 0
    /\ result.results[1].content_length = 0

\* C10: a dispatcher invoked with a name outside its tool catalogue returns
\* the structured result {success: false, error: "Unknown tool: <name>"}
\* and calls no tool handler.
C10_UnknownToolStructuredError ==
    (pc = "done" /\ app \in {"webscraper", "research"}
     /\ call.tool \notin Catalogue(app))
    => /\ frame.op = "none"
       /\ log = <<>>
       /\ IF app = "webscraper"
          THEN reply.content[1].text = JsonDumps(UnknownToolResult(call.tool))
          ELSE /\ reply # ReturnedNone
               /\ reply.list[1].text = JsonDumps(UnknownToolResult(call.tool))

----------------------------------------------------------------------------
(* What an invocation of a scraping tool did. *)

\* a tool operation has returned to the entry point that called it
ToolDone(name) == pc = "done" /\ frame.op = name

\* the GET outcome of the invocation of a scraping tool
GetOutcome == log[1].out

\* a fault was raised in the invocation and reached the boundary of the
\* tool: a missing required argument, a fault of the search capability, of
\* the GET or its status check, of the pattern matcher, of a strategy of
\* extract_article, or of the page download of scrape_url
BoundaryFault ==
    /\ pc = "done"
    /\ \/ call.args = <<>>
       \/ /\ log # <<>>
          /\ LET first == log[1] IN
             \/ first.ev = "search" /\ ~first.out.ok
             \/ first.ev = "get" /\ ~Fetched(first.out)
             \/ /\ first.ev = "get" /\ Fetched(first.out)
                /\ frame.op = "extract_links"
                /\ DictGet(call.args, "filter_pattern", PyNone) = BadPattern
                /\ AnchorsWithHref(first.out.page) # <<>>
             \/ first.ev = "article" /\ PrimaryRaised(first.out)
             \/ /\ first.ev = "article" /\ ~PrimaryRaised(first.out)
                /\ \E i \in 2..Len(log) : log[i].out = Raised
             \/ /\ first.ev = "fetch" /\ frame.op = "scrape_url"
                /\ first.out = Raised

\* a scrape_table call returned the table at an index inside the list
TableScraped ==
    /\ ToolDone("scrape_table")
    /\ Fetched(GetOutcome)
    /\ result.success
    /\ DictGet(call.args, "table_index", 0) >= 0

\* the table a successful scrape_table call looked at
ScrapedTable == GetOutcome.page[DictGet(call.args, "table_index", 0) + 1]

----------------------------------------------------------------------------
(* Claims on the tool boundary and the extractors. *)

\* C11: no fault crosses a tool boundary: whenever a fault is raised in an
\* invocation (network failure, non-2xx status, a fault of an external
\* library, a missing required argument) and is not recovered inside the
\* tool, the caller receives a result {success: false, error: <message>}.
C11_FaultsBecomeFailureEnvelope ==
    BoundaryFault
    => LET received == IF app = "webscraper"
                       THEN reply.content[1].text.json ELSE reply
       IN  /\ "success" \in DOMAIN received
           /\ received.success = FALSE
           /\ "error" \in DOMAIN received

\* C12: every result a tool operation returns satisfies the ToolResult
\* invariant: success=false implies an error field and no data field
\* (results, content, links, metadata, headers, rows); success=true implies
\* no error field.
C12_ToolResultInvariant ==
    (pc = "done" /\ app \in SearchApps /\ result # Unset)
    => /\ "success" \in DOMAIN result
       /\ result.success \in BOOLEAN
       /\ ~result.success
          => /\ "error" \in DOMAIN result
             /\ DOMAIN result \cap
                  {"results", "content", "links", "metadata", "headers",
                   "rows"} = {}
       /\ result.success => "error" \notin DOMAIN result

\* C12 witness: a scraping tool returned a failure for a response with an
\* error status
C12_Witness ==
    /\ ToolDone("scrape_html")
    /\ ~Fetched(GetOutcome)
    /\ result = [success |-> FALSE, url |-> PageUrl,
                 error |-> <<"404 Client Error">>]

\* C13: for a fetched page with N tables and any integer table_index,
\* scrape_table returns success=true if and only if 0 <= table_index < N;
\* it fails with the out-of-range error when table_index = N (N > 0) and
\* with the no-tables-found error when N = 0.
C13_TableIndexInRange ==
    (ToolDone("scrape_table") /\ Fetched(GetOutcome))
    => LET n == Len(GetOutcome.page)
           table_index == DictGet(call.args, "table_index", 0)
       IN  /\ result.success <=> (0 <= table_index /\ table_index < n)
           /\ (table_index = n /\ n > 0)
              => /\ ~result.success
                 /\ result.error =
                      <<"Table index ", ToString(n),
                        " out of range. Found ", ToString(n), " tables.">>
           /\ n = 0
              => /\ ~result.success
                 /\ result.error = <<"No tables found on page">>

\* C14 as stated: in a successful scrape_table result, headers is the
\* cell-text sequence of the <thead> (empty without one) and rows holds, in
\* document order, the cell texts of every <tr> except those identical to
\* headers.
C14_RowsAllButHeaders ==
    TableScraped
    => LET thead == IF HasThead(ScrapedTable) THEN ScrapedTable.thead
                    ELSE <<>>
           trs == thead \o ScrapedTable.body
           texts == [i \in 1..Len(trs) |-> CellTexts(trs[i])]
       IN  /\ result.headers =
                Join(<<>>, [i \in 1..Len(thead) |-> CellTexts(thead[i])])
           /\ result.rows =
                SelectSeq(texts, LAMBDA cells : cells # result.headers)

\* C14 amended: in a successful scrape_table result, headers is the
\* cell-text sequence of the <thead> (empty without one) and rows holds, in
\* document order, the cell texts of every <tr> that has at least one cell
\* and whose cell texts differ from headers; a table without <thead> whose
\* rows are [A,B] and [1,2] gives headers=[] and both rows.
C14_RowsWithCellsButHeaders ==
    TableScraped
    => LET thead == IF HasThead(ScrapedTable) THEN ScrapedTable.thead
                    ELSE <<>>
           trs == thead \o ScrapedTable.body
           texts == [i \in 1..Len(trs) |-> CellTexts(trs[i])]
       IN  /\ result.headers =
                Join(<<>>, [i \in 1..Len(thead) |-> CellTexts(thead[i])])
           /\ result.rows =
                SelectSeq(texts, LAMBDA cells :
                            cells # <<>> /\ cells # result.headers)
           /\ result.row_count = Len(result.rows)
           /\ ScrapedTable = [body |-> << << <<"A">>, <<"B">> >>,
                                         << <<"1">>, <<"2">> >> >>]
              => /\ result.headers = <<>>
                 /\ result.rows = << << <<"A">>, <<"B">> >>,
                                     << <<"1">>, <<"2">> >> >>

\* C14 witness: a table whose <thead> reads A, B and whose body has a row
\* without cells and a row that reads A, B once cleaned: neither is a row of
\* the result
C14_Witness ==
    /\ TableScraped
    /\ HasThead(ScrapedTable)
    /\ result.headers = << <<"A">>, <<"B">> >>
    /\ ScrapedTable.body = << <<>>, << <<" ", "A">>, <<"B", "\n">> >> >>
    /\ result.rows = <<>>

\* C15: extract_links returns exactly the anchors that have an href, in
\* document order, each resolved to an absolute url against the page url,
\* keeping an anchor if and only if filter_pattern is absent or occurs
\* somewhere in the absolute url (search, not full match); no emitted url
\* fails the filter and count is the number of emitted links.
C15_LinksFilteredBySearch ==
    (ToolDone("extract_links") /\ result.success)
    => LET pattern == DictGet(call.args, "filter_pattern", PyNone)
           NoFilter == pattern = PyNone \/ pattern = <<>>
           Occurs(url) ==
               \E i \in 1..Len(url) : \E j \in i..Len(url) :
                   SubSeq(url, i, j) = pattern
           AbsoluteOf(href) ==
               IF href = <<>> THEN <<"http://h", "/", "d", "/", "p">>
               ELSE IF href = <<"http://g", "/", "q">> THEN href
               ELSE IF href = <<"/", "q">> THEN <<"http://h", "/", "q">>
               ELSE <<"http://h", "/", "d", "/", "r">>
           kept == SelectSeq(GetOutcome.page,
                     LAMBDA a : /\ "href" \in DOMAIN a
                                /\ NoFilter \/ Occurs(AbsoluteOf(a.href)))
       IN  /\ Len(result.links) = Len(kept)
           /\ \A k \in 1..Len(kept) :
                result.links[k].url = AbsoluteOf(kept[k].href)
           /\ ~NoFilter
              => \A k \in 1..Len(result.links) : Occurs(result.links[k].url)
           /\ result.count = Len(result.links)

\* C15 witness: with the filter "q", of a relative anchor to r and an
\* anchor to /q only the second is returned, its url matched at its end
C15_Witness ==
    /\ ToolDone("extract_links")
    /\ result.success
    /\ DictGet(call.args, "filter_pattern", PyNone) = <<"q">>
    /\ Len(GetOutcome.page) = 2
    /\ "href" \in DOMAIN GetOutcome.page[1]
    /\ GetOutcome.page[1].href = <<"r">>
    /\ "href" \in DOMAIN GetOutcome.page[2]
    /\ GetOutcome.page[2].href = <<"/", "q">>
    /\ result.links = <<[text |-> <<"a">>, url |-> <<"http://h", "/", "q">>]>>

\* C16: extract_metadata returns all seven keys, each null when the page
\* has no matching tag; when the page has one or several meta tags for a
\* field (name or property compared without regard to case), the field is
\* the content of the last of them in document order.
C16_MetadataLastTagWins ==
    (ToolDone("extract_metadata") /\ result.success)
    => LET page == GetOutcome.page
           Named(meta, names) ==
               "name" \in DOMAIN meta /\ meta.name \in names
           Property(meta, names) ==
               "property" \in DOMAIN meta /\ meta.property \in names
           IsFor(meta, field) ==
               IF field = "description"
               THEN Named(meta, {"description", "Description"})
               ELSE IF field \in {"keywords", "author"}
               THEN Named(meta, {field})
               ELSE IF field = "og_title"
               THEN Property(meta, {"og:title", "OG:Title"})
               ELSE IF field = "og_description"
               THEN Property(meta, {"og:description"})
               ELSE Property(meta, {"og:image"})
       IN  /\ DOMAIN result.metadata = MetadataKeys
           /\ page.title = NoTitle => result.metadata.title = PyNone
           /\ \A field \in MetadataKeys \ {"title"} :
                LET tags == {i \in 1..Len(page.metas) :
                               IsFor(page.metas[i], field)}
                IN  IF tags = {}
                    THEN result.metadata[field] = PyNone
                    ELSE LET last == CHOOSE i \in tags :
                                        \A j \in tags : j <= i
                         IN  result.metadata[field] =
                               DictGet(page.metas[last], "content", EmptyStr)

\* C17: extract_article, when neither strategy raises, returns as content
\* the primary strategy's body text if it is non-empty, otherwise the
\* fallback strategy's text, and null with content_length 0 if both are
\* empty or absent; content_length is the length of the returned content
\* (0 for null).
C17_ArticleContentSelection ==
    (ToolDone("extract_article") /\ result.success)
    => LET primary == log[1].out.text
           fallback == IF Len(log) >= 3 /\ log[3].ev = "extract"
                       THEN log[3].out ELSE PyNone
       IN  /\ result.content =
                IF primary # <<>> THEN primary
                ELSE IF Truthy(fallback) THEN fallback ELSE PyNone
           /\ result.content_length =
                IF result.content = PyNone THEN 0 ELSE Len(result.content)

\* C18: extract_article is all-or-nothing: if the primary strategy's
\* download or parse, or the fallback strategy's fetch or extract raises,
\* the call returns success=false with an error and none of title, authors,
\* publish_date, top_image, content; when it returns success=true, title,
\* authors, publish_date and top_image are the primary strategy's.
C18_ArticleAllOrNothing ==
    ToolDone("extract_article")
    => LET article == log[1].out
           raised == \/ PrimaryRaised(article)
                     \/ \E i \in 2..Len(log) : log[i].out = Raised
       IN  IF raised
           THEN /\ ~result.success
                /\ "error" \in DOMAIN result
                /\ result.error \in
                     {ArticleFaultMsg, FetchFaultMsg, ExtractFaultMsg}
                /\ DOMAIN result \cap
                     {"title", "authors", "publish_date", "top_image",
                      "content", "content_length"} = {}
           ELSE /\ result.success
                /\ result.title = article.title
                /\ result.authors = article.authors
                /\ result.top_image = article.top_image
                /\ result.publish_date =
                     IF article.publish_date = NoDate THEN PyNone
                     ELSE <<article.publish_date.day, " 00:00:00">>

\* C18 witness: the primary strategy parsed an article with a body text and
\* the extraction of the fallback strategy raised
C18_Witness ==
    /\ ToolDone("extract_article")
    /\ ~PrimaryRaised(log[1].out)
    /\ log[1].out.text # <<>>
    /\ Len(log) = 3
    /\ log[3].out = Raised
    /\ result.error = ExtractFaultMsg

\* C19: clean_text(clean_text(s)) = clean_text(s) for every text s, an
\* empty or absent s gives "", and clean_text(s) has no two consecutive
\* whitespace characters, no whitespace other than a single space and no
\* leading or trailing whitespace: so is every text scrape_html returns for
\* a page, and the title extract_metadata returns.
C19_CleanTextIdempotent ==
    LET Normalized(c) ==
            /\ \A i \in 1..Len(c) : c[i] \in Whitespace => c[i] = " "
            /\ \A i \in 1..(Len(c) - 1) :
                 ~(c[i] \in Whitespace /\ c[i + 1] \in Whitespace)
            /\ c # <<>>
               => c[1] \notin Whitespace /\ c[Len(c)] \notin Whitespace
    IN  /\ clean_text(PyNone) = <<>> /\ clean_text(<<>>) = <<>>
        /\ (ToolDone("scrape_html") /\ result.success)
           => \A i \in 1..Len(result.content) :
                LET c == result.content[i] IN
                clean_text(c) = c /\ Normalized(c)
        /\ (ToolDone("extract_metadata") /\ result.success
            /\ GetOutcome.page.title # NoTitle)
           => LET c == result.metadata.title IN
              /\ clean_text(c) = c /\ Normalized(c)
              /\ GetOutcome.page.title = PyNone => c = <<>>

\* C19 witness: the page text "a", space, newline, "a" came back as "a a"
C19_Witness ==
    /\ ToolDone("scrape_html")
    /\ result.success
    /\ GetOutcome.page = <<[tag |-> "p", text |-> <<"a", " ", "\n", "a">>]>>
    /\ "selector" \notin DOMAIN call.args
    /\ result.content = << <<"a", " ", "a">> >>

\* C20: no invocation leaves state behind that a later invocation can
\* observe: between invocations the process is in the state it started in,
\* and retrieve_memory returns what it returns in a process that has just
\* started.
C20_NoStateLeftBehind ==
    /\ pc = "idle" => memory = <<>>
    /\ (pc = "done" /\ frame.op = "retrieve_memory")
       => reply = ListReply(TextContent(<<"No matching memories found.">>))

----------------------------------------------------------------------------
(* Claims on the order of the steps of search_and_scrape. *)

\* C21: search_and_scrape never retries: during one call each processed
\* search result has its url fetched exactly once, whether the fetch fails
\* or succeeds, so the number of fetch attempts equals the number of
\* EnrichedResults, while the loop runs and in the result returned.
C21_EachItemFetchedOnce ==
    (InScrape /\ SearchResponse.ok)
    => /\ Len(Calls("fetch")) = Len(enriched_results)
       /\ \A i \in 1..Len(enriched_results) :
            Cardinality({k \in 1..Len(log) :
                           /\ log[k].ev = "fetch"
                           /\ log[k].arg = enriched_results[i].url}) = 1
       /\ ScrapeDone
          => /\ result.success
             /\ Len(Calls("fetch")) = Len(result.results)
             /\ FetchedUrls = [i \in 1..Len(result.results) |->
                                 result.results[i].url]

\* C21 witness: the first download raised, the second gave no document, and
\* the call returned after two fetches with two EnrichedResults
C21_Witness ==
    /\ ScrapeDone
    /\ result.success
    /\ Len(result.results) = 2
    /\ Len(Calls("fetch")) = 2
    /\ Calls("fetch")[1].out = Raised
    /\ Calls("fetch")[2].out = PyNone

\* C22: search_and_scrape is strictly sequential: the search step completes
\* before any page fetch starts, and for every i the EnrichedResult of item
\* i is appended to the output before the fetch of item i+1 starts: a step
\* that enters the call makes the search and nothing else, and a step of
\* the loop starts with every fetched item appended, fetches the one next
\* item of the slice and ends with that item appended, so at no point are
\* two fetches in flight within one call.
C22_StrictlySequential ==
    [][/\ (pc = "idle" /\ InScrape')
          => /\ Len(log') = 1
             /\ log'[1].ev = "search"
             /\ enriched_results' = <<>>
       /\ (pc = "loop" /\ log' # log)
          => LET n == Len(enriched_results)
                 item == Items[n + 1]
                 made == SubSeq(log', Len(log) + 1, Len(log'))
             IN  /\ log[1].ev = "search"
                 /\ Len(Calls("fetch")) = n
                 /\ Len(SelectSeq(made, LAMBDA e : e.ev = "fetch")) = 1
                 /\ made[1] = FetchCall(item.url, made[1].out)
                 /\ \A k \in 1..Len(made) : made[k].ev # "search"
                 /\ SubSeq(log', 1, Len(log)) = log
                 /\ Len(enriched_results') = n + 1
                 /\ SubSeq(enriched_results', 1, n) = enriched_results
                 /\ enriched_results'[n + 1].url = item.url
      ]_vars

\* C22 witness: the loop stands between two items: the first is fetched and
\* appended, the second is not yet fetched
C22_Witness ==
    /\ pc = "loop"
    /\ frame.op = "search_and_scrape"
    /\ Len(Items) >= 2
    /\ idx = 1
    /\ Len(Calls("fetch")) = 1
    /\ Len(enriched_results) = 1
    /\ enriched_results[1].url = Items[1].url

\* C23: when two search_and_scrape invocations run interleaved in one
\* process, the output sequence of each is appended to only by that
\* invocation: every EnrichedResult in the list of a call, while it runs
\* and in its result, was built from the SearchResult at the same position
\* of that call's own search, under every interleaving.
C23_OutputOwnedByInvocation ==
    \A c \in Invocations :
        (pc[c] \in {"loop", "done"} /\ search_result[c] # Unset)
        => LET items == PairItems(c)
               out == enriched_results[c]
           IN  /\ Len(out) = idx[c]
               /\ idx[c] <= Len(items)
               /\ \A i \in 1..Len(out) :
                    /\ out[i].url = items[i].url
                    /\ out[i].title = items[i].title
                    /\ out[i].url = <<"http", PairQuery(c), i>>
               /\ pc[c] = "done"
                  => /\ result[c].success
                     /\ result[c].results = out
                     /\ Len(out) = Len(items)

\* C23 witness: both invocations are inside their loops, each between its
\* first and its second item
C23_Witness ==
    \A c \in Invocations :
        /\ pc[c] = "loop"
        /\ Len(PairItems(c)) = 2
        /\ idx[c] = 1
        /\ Len(enriched_results[c]) = 1
        /\ enriched_results[c][1].url = <<"http", PairQuery(c), 1>>

----------------------------------------------------------------------------
(* Claims on the search tools, the two implementations and the endpoint. *)

\* C24: web_search and news_search never return a partial result list: if
\* the external search capability fails at any point, also after some
\* results were collected, the call returns success=false with an error and
\* no results field; a success=true result holds every result the
\* capability returned, in its order, with count equal to their number.
C24_NoPartialResultList ==
    (pc = "done" /\ frame.op \in {"web_search", "news_search"})
    => LET resp == SearchResponse
           q == call.args.query
           Url(i) == IF log[1].arg[1] = "text" THEN TextHit(q, i).href
                     ELSE NewsHit(q, i).url
       IN  IF resp.ok
           THEN /\ result.success
                /\ "error" \notin DOMAIN result
                /\ Len(result.results) = resp.n
                /\ \A i \in 1..resp.n :
                     /\ result.results[i].url = Url(i)
                     /\ result.results[i].title = <<"title", q, i>>
                /\ result.count = resp.n
           ELSE /\ result.success = FALSE
                /\ result.error = SearchFaultMsg
                /\ "results" \notin DOMAIN result
                /\ "count" \notin DOMAIN result

\* C24 witness: the capability raised after it had yielded one result to
\* web_search, and the call returned the failure alone
C24_Witness ==
    /\ pc = "done"
    /\ frame.op = "web_search"
    /\ call.tool = "web_search"
    /\ ~SearchResponse.ok
    /\ SearchResponse.n = 1
    /\ result = SearchFailure(call.args.query, SearchFaultMsg)

\* C25: the two search_and_scrape implementations (the registered tool of
\* tools/search.py and WebScraper.search_and_scrape) are observationally
\* equivalent on the core outcome: for the same query, 1 <= num_results <=
\* 10, the same search response and the same per-url fetch and extract
\* outcomes, both return the same success flag, the same count and the same
\* sequence of (url, content_length) pairs.
C25_ImplementationsAgree ==
    (ScrapeDone /\ 1 <= frame.arg /\ frame.arg <= 10)
    => LET other == IF app = "fastmcp" THEN "webscraper" ELSE "fastmcp"
           theirs == search_and_scrape(other, call.args.query, frame.arg,
                                       log)
           Core(r) == [i \in 1..Len(r.results) |->
                         <<r.results[i].url, r.results[i].content_length>>]
       IN  /\ result.success = theirs.success
           /\ result.success
              => /\ result.count = theirs.count
                 /\ Core(result) = Core(theirs)
           /\ ~result.success => result = theirs

\* C25 witness: a WebScraper call returned three results, of which one
\* download raised, one page gave no text and one was extracted, and the
\* registered tool builds another content for the first on the same
\* outcomes
C25_Witness ==
    /\ ScrapeDone
    /\ app = "webscraper"
    /\ frame.arg = 3
    /\ result.success
    /\ Len(result.results) = 3
    /\ result.results[1].content = <<"Scraping error: ", "fetch raised">>
    /\ search_and_scrape("fastmcp", call.args.query, 3, log).results[1].content
         = <<"Error: ", "fetch raised">>
    /\ result.results[2].content = PlaceholderNoContent
    /\ result.results[3].content_length > 0

\* C26: provided every external call (search, fetch, extract) and every
\* pacing delay eventually returns, every search_and_scrape invocation
\* eventually returns a result, after a number of fetch-extract-append
\* cycles equal to the number of search results it processes (the first
\* num_results of those found) when the search succeeded, and after none
\* when it failed.
C26_ScrapeEventuallyReturns ==
    InScrape
    ~> (/\ ScrapeDone
        /\ result # Unset
        /\ IF SearchResponse.ok
           THEN /\ result.success
                /\ idx = Len(Prefix(search_result.results, num_results))
                /\ Len(Calls("fetch")) = idx
                /\ Len(result.results) = idx
           ELSE /\ ~result.success
                /\ idx = 0
                /\ Calls("fetch") = <<>>)

\* C26 witness: a call returned after three cycles, one of them with a
\* download that raised
C26_Witness ==
    /\ ScrapeDone
    /\ result.success
    /\ idx = 3
    /\ Len(Calls("fetch")) = 3
    /\ \E k \in 1..3 : Calls("fetch")[k].out = Raised
    /\ Len(Calls("sleep")) >= 2

\* C27: the /call-tool endpoint answers with outer success=true and the
\* serialized result of the tool for every request whose body can be read
\* as a JSON object with a name and arguments, also when the tool name is
\* unknown, a required argument is missing or the result of the tool has
\* success=false; the outer success=false with status 500 arises only when
\* reading the request raises (the body is not JSON, or is JSON without
\* being an object), and then no tool was called.
C27_EndpointOuterSuccess ==
    pc = "responded"
    => IF "tool" \in DOMAIN call
       THEN /\ reply.status_code = 200
            /\ reply.content.success = TRUE
            /\ reply.content.result =
                 JsonDumps(IF result # Unset THEN result
                           ELSE DispatchFailure(
                                    KeyErrorMsg(RequiredKey(call.tool))))
            /\ result = Unset => call.args = <<>>
       ELSE /\ reply.status_code = 500
            /\ reply.content = [success |-> FALSE, error |-> call.body.error]
            /\ result = Unset /\ log = <<>>

\* C27 witness: the endpoint answered success=true for a scrape_table call
\* whose own result has success=false
C27_Witness ==
    /\ pc = "responded"
    /\ "tool" \in DOMAIN call
    /\ call.tool = "scrape_table"
    /\ result # Unset
    /\ result.success = FALSE
    /\ reply.content.success = TRUE
    /\ reply.content.result.json.error = <<"No tables found on page">>

============================================================================
